---- MODULE Spec2Model ----
(***************************************************************************)
(* Model of training_dynamics/utils/data_tools.py:                         *)
(*   is_balanced  - stack based check of opening and closing symbols       *)
(*   dyck2dataset - loader of dyck-transformer data files into columns     *)
(* A character is a one-character string; a text is a sequence of          *)
(* characters; a symbol mapping is a function from closing symbols (keys)  *)
(* to opening symbols (values), like the Python dict.                      *)
(***************************************************************************)
EXTENDS Integers, Sequences, FiniteSets, TLC

VARIABLES
    symbols,    \* the dict passed as `symbols` (shared by all calls)
    txt,        \* txt[t]: the argument `txt` of the call made by thread t
    char_list,  \* char_list[t]: list(txt), line 102
    pos,        \* pos[t]: number of elements the for loop has taken
    stack,      \* stack[t]: the local list `stack`
    pc,         \* pc[t]: "for" | "open" | "close" | "done" | "raised"
    ret,        \* ret[t]: "none" | "True" | "False"
    exc,        \* exc[t]: "none" | "IndexError" | "KeyError"
    calls,      \* history: the calls that have returned, in order
    disk,       \* dyck2dataset: disk[name] is what readlines() gives for the file
    files,      \* dyck2dataset: the argument `files`, then the list of files
    use_splits, \* dyck2dataset: the flag
    dataset_dict, \* dyck2dataset: the dict of columns (or of splits)
    fidx,       \* dyck2dataset: number of files the loop has processed
    dpc         \* dyck2dataset: "idle" | "start" | "loop" | "done" | "raised"

vars == <<symbols, txt, char_list, pos, stack, pc, ret, exc, calls,
          disk, files, use_splits, dataset_dict, fidx, dpc>>
balVars == <<symbols, txt, char_list, pos, stack, pc, ret, exc, calls>>
dyckVars == <<disk, files, use_splits, dataset_dict, fidx, dpc>>

-----------------------------------------------------------------------------
(* Bounds and input universes *)

MaxLen == 4
MaxPairs == 2
ConcLen == 2
MaxCalls == 2

Chars == {"(", ")", "[", "]"}
ConcChars == {"(", ")", "]"}

Texts(alphabet, n) == UNION {[1..k -> alphabet] : k \in 0..n}

Mappings ==
    UNION {[K -> Chars] : K \in {S \in SUBSET Chars : Cardinality(S) <= MaxPairs}}

\* the default value of the parameter `symbols`, line 81
DefaultSymbols == [k \in {")", "]", "}"} |->
                     IF k = ")" THEN "(" ELSE IF k = "]" THEN "[" ELSE "{"]

-----------------------------------------------------------------------------
(* Python primitives used by is_balanced *)

\* the initial value of opening_symbol, line 107
\* (variant: initialised to an opening symbol)
NoSymbolParen == "("
NoSymbol == ""

\* `ch in symbols.values()`, line 104
InValues(ch, syms) == \E k \in DOMAIN syms : syms[k] = ch

\* `ch in symbols.keys()`, line 106
InKeys(ch, syms) == ch \in DOMAIN syms

\* `len(stack) > 0`, line 108
\* (variant: the pop is not guarded)
NonEmptyAlways(stk) == TRUE
NonEmpty(stk) == Len(stk) > 0

\* stack.pop(), line 109: removes and returns the last element; IndexError
\* when the list is empty
\* (variants: pop(0), which takes the first element; stack[-1], which
\* removes nothing)
ListPopKeep(stk) ==
    IF Len(stk) = 0
    THEN [exc |-> "IndexError", value |-> NoSymbol, list |-> stk]
    ELSE [exc |-> "none", value |-> stk[Len(stk)], list |-> stk]
ListPopFirst(stk) ==
    IF Len(stk) = 0
    THEN [exc |-> "IndexError", value |-> NoSymbol, list |-> stk]
    ELSE [exc |-> "none", value |-> stk[1], list |-> Tail(stk)]
ListPop(stk) ==
    IF Len(stk) = 0
    THEN [exc |-> "IndexError", value |-> NoSymbol, list |-> stk]
    ELSE [exc |-> "none", value |-> stk[Len(stk)],
          list |-> SubSeq(stk, 1, Len(stk) - 1)]

\* `symbols[ch]`, line 110: reads the dict and leaves it as it is; KeyError
\* when the key is absent
\* (variant: symbols.pop(ch), which removes the key)
DictPop(syms, ch) ==
    IF ch \in DOMAIN syms
    THEN [exc |-> "none", value |-> syms[ch],
          dict |-> [k \in DOMAIN syms \ {ch} |-> syms[k]]]
    ELSE [exc |-> "KeyError", value |-> NoSymbol, dict |-> syms]
DictGet(syms, ch) ==
    IF ch \in DOMAIN syms
    THEN [exc |-> "none", value |-> syms[ch], dict |-> syms]
    ELSE [exc |-> "KeyError", value |-> NoSymbol, dict |-> syms]

-----------------------------------------------------------------------------
(* The two statements of the loop body, as functions of the local state *)

\* lines 104-105: `if ch in symbols.values(): stack.append(ch)`
\* (variant: pushes whatever is no closing symbol)
OpenCheckAll(ch, stk, syms) ==
    IF ~InKeys(ch, syms) THEN Append(stk, ch) ELSE stk
OpenCheck(ch, stk, syms) ==
    IF InValues(ch, syms) THEN Append(stk, ch) ELSE stk

\* line 106 is an `if`, not an `elif`: the closing check runs for every ch
\* (variant: `elif`)
RunsCloseCheckElif(ch, syms) == ~InValues(ch, syms)
RunsCloseCheck(ch, syms) == TRUE

\* lines 106-111; out is "next" (go on), "False" (return False) or "raise"
CloseCheck(ch, stk, syms) ==
    IF ~(RunsCloseCheck(ch, syms) /\ InKeys(ch, syms))
    THEN [out |-> "next", exc |-> "none", stack |-> stk, dict |-> syms]
    ELSE LET popped == IF NonEmpty(stk) THEN ListPop(stk)
                       ELSE [exc |-> "none", value |-> NoSymbol, list |-> stk]
             looked == DictGet(syms, ch)
         IN  IF popped.exc # "none"
             THEN [out |-> "raise", exc |-> popped.exc,
                   stack |-> stk, dict |-> syms]
             ELSE IF looked.exc # "none"
             THEN [out |-> "raise", exc |-> looked.exc,
                   stack |-> popped.list, dict |-> syms]
             ELSE [out |-> IF popped.value # looked.value THEN "False" ELSE "next",
                   exc |-> "none", stack |-> popped.list, dict |-> looked.dict]

\* line 113: `return len(stack) == 0`
\* (variant: `return True`)
FinalResultTrue(stk) == "True"
FinalResult(stk) == IF Len(stk) = 0 THEN "True" ELSE "False"

\* is_balanced run alone, lines 100-113: "True", "False" or the exception
RECURSIVE Scan(_, _, _, _)
Scan(chars, i, stk, syms) ==
    IF i > Len(chars) THEN FinalResult(stk)
    ELSE LET c == CloseCheck(chars[i], OpenCheck(chars[i], stk, syms), syms)
         IN  IF c.out = "next" THEN Scan(chars, i + 1, c.stack, c.dict)
             ELSE IF c.out = "False" THEN "False"
             ELSE c.exc

is_balanced(text, syms) == Scan(text, 1, <<>>, syms)

-----------------------------------------------------------------------------
(* is_balanced as a process: one thread per call *)

\* the loop variable `ch`, line 103
ch(t) == char_list[t][pos[t]]

\* `stack` is a local of the call (line 100): a write reaches only thread t
\* (variant: one list shared by all calls)
SetSharedStack(stacks, t, stk) == [u \in DOMAIN stacks |-> stk]
SetStack(stacks, t, stk) == [stacks EXCEPT ![t] = stk]

\* line 103: the for loop takes the next element
Fetch(t) ==
    /\ pc[t] = "for"
    /\ pos[t] < Len(char_list[t])
    /\ pos' = [pos EXCEPT ![t] = @ + 1]
    /\ pc' = [pc EXCEPT ![t] = "open"]
    /\ UNCHANGED <<symbols, txt, char_list, stack, ret, exc, calls>>
    /\ UNCHANGED dyckVars

\* lines 104-105
Opening(t) ==
    /\ pc[t] = "open"
    /\ stack' = SetStack(stack, t, OpenCheck(ch(t), stack[t], symbols))
    /\ pc' = [pc EXCEPT ![t] = "close"]
    /\ UNCHANGED <<symbols, txt, char_list, pos, ret, exc, calls>>
    /\ UNCHANGED dyckVars

\* lines 106-111
Closing(t) ==
    /\ pc[t] = "close"
    /\ LET c == CloseCheck(ch(t), stack[t], symbols)
       IN  /\ stack' = SetStack(stack, t, c.stack)
           /\ symbols' = c.dict
           /\ pc' = [pc EXCEPT ![t] = CASE c.out = "next" -> "for"
                                        [] c.out = "False" -> "done"
                                        [] OTHER -> "raised"]
           /\ ret' = [ret EXCEPT ![t] = IF c.out = "False" THEN "False" ELSE @]
           /\ exc' = [exc EXCEPT ![t] = c.exc]
           /\ calls' = IF c.out = "False"
                       THEN Append(calls, [txt |-> txt[t], ret |-> "False"])
                       ELSE calls
    /\ UNCHANGED <<txt, char_list, pos>>
    /\ UNCHANGED dyckVars

\* line 113, reached when the loop is exhausted
Return(t) ==
    /\ pc[t] = "for"
    /\ pos[t] >= Len(char_list[t])
    /\ ret' = [ret EXCEPT ![t] = FinalResult(stack[t])]
    /\ pc' = [pc EXCEPT ![t] = "done"]
    /\ calls' = Append(calls, [txt |-> txt[t], ret |-> FinalResult(stack[t])])
    /\ UNCHANGED <<symbols, txt, char_list, pos, stack, exc>>
    /\ UNCHANGED dyckVars

\* a thread whose call has returned calls is_balanced again, lines 100-102
Call(t) ==
    /\ pc[t] = "done"
    /\ Len(calls) < MaxCalls
    /\ \E text \in Texts(ConcChars, ConcLen) :
          /\ txt' = [txt EXCEPT ![t] = text]
          /\ char_list' = [char_list EXCEPT ![t] = text]
    /\ stack' = SetStack(stack, t, <<>>)
    /\ pos' = [pos EXCEPT ![t] = 0]
    /\ pc' = [pc EXCEPT ![t] = "for"]
    /\ ret' = [ret EXCEPT ![t] = "none"]
    /\ UNCHANGED <<symbols, exc, calls>>
    /\ UNCHANGED dyckVars

\* the state right after `stack = []; char_list = list(txt)` in every thread
Entered(T, texts, syms) ==
    /\ symbols = syms
    /\ txt = texts
    /\ char_list = texts
    /\ pos = [t \in T |-> 0]
    /\ stack = [t \in T |-> <<>>]
    /\ pc = [t \in T |-> "for"]
    /\ ret = [t \in T |-> "none"]
    /\ exc = [t \in T |-> "none"]
    /\ calls = <<>>

DyckIdle ==
    /\ disk = <<>>
    /\ files = [kind |-> "list", names |-> <<>>]
    /\ use_splits = FALSE
    /\ dataset_dict = <<>>
    /\ fidx = 0
    /\ dpc = "idle"

\* one call, any text, any mapping
Init ==
    /\ \E text \in Texts(Chars, MaxLen), syms \in Mappings :
          Entered({"t1"}, [t \in {"t1"} |-> text], syms)
    /\ DyckIdle

FetchStep == \E t \in DOMAIN pc : Fetch(t)
OpeningStep == \E t \in DOMAIN pc : Opening(t)
ClosingStep == \E t \in DOMAIN pc : Closing(t)
ReturnStep == \E t \in DOMAIN pc : Return(t)
CallStep == \E t \in DOMAIN pc : Call(t)

Next == FetchStep \/ OpeningStep \/ ClosingStep \/ ReturnStep

Spec == Init /\ [][Next]_vars

\* two threads call is_balanced at once, sharing the default mapping object
ConcInit ==
    /\ \E texts \in [{"t1", "t2"} -> Texts(ConcChars, ConcLen)] :
          Entered({"t1", "t2"}, texts, DefaultSymbols)
    /\ DyckIdle

ConcSpec == ConcInit /\ [][Next]_vars

\* one thread calls is_balanced again and again on the same mapping object
CallMappings == {DefaultSymbols, [k \in {")", "("} |-> "("]}

CallsInit ==
    /\ \E text \in Texts(ConcChars, ConcLen), syms \in CallMappings :
          Entered({"t1"}, [t \in {"t1"} |-> text], syms)
    /\ DyckIdle

NextCalls == FetchStep \/ OpeningStep \/ ClosingStep \/ ReturnStep \/ CallStep

CallsSpec == CallsInit /\ [][NextCalls]_vars

-----------------------------------------------------------------------------
(* dyck2dataset, lines 11-78 *)

MaxLines == 2
MaxFiles == 2

\* a file name "k<k>_m<m>_tr<tr>.<subset>" is the tuple <<k, m, tr, subset>>
FileNames == {<<1, 10, "20", "train">>, <<2, 10, "20", "test">>}

\* a line as readlines() returns it: tokens, the line break last
LineVals == {<<"\n">>,
             <<"(", " ", ")", " ", "END", "\n">>,
             <<" ", "(", "END", "\n">>}

Contents == UNION {[1..n -> LineVals] : n \in 0..MaxLines}

\* parse("k{k:d}_m{m:d}_tr{tr}.{subset}", file_name), line 48
Parse(name) ==
    [k |-> name[1], m |-> name[2], tr |-> name[3], subset |-> name[4]]

\* str.replace(tok, ""), line 64
Without(line, tok) == SelectSeq(line, LAMBDA x : x # tok)

\* str.strip(), line 64: drops the blanks at both ends
RECURSIVE LStrip(_)
LStrip(line) ==
    IF line # <<>> /\ Head(line) \in {" ", "\n"} THEN LStrip(Tail(line)) ELSE line
RECURSIVE RStrip(_)
RStrip(line) ==
    IF line # <<>> /\ line[Len(line)] \in {" ", "\n"}
    THEN RStrip(SubSeq(line, 1, Len(line) - 1)) ELSE line
Strip(line) == RStrip(LStrip(line))

\* line 64: line.replace("END", "").replace("\n", "").strip()
CleanLine(line) == Strip(Without(Without(line, "END"), "\n"))

\* lines 63-65: the list comprehension keeps one element per line read
CleanLines(lines) == [i \in 1..Len(lines) |-> CleanLine(lines[i])]

\* lines 43-45
ColNames(splits) ==
    IF splits THEN <<"k", "m", "tr">> ELSE <<"k", "m", "tr", "subset">>

Range(seq) == {seq[i] : i \in DOMAIN seq}

\* `[parsed[key]] * len(lines)`, line 68
\* (variant: `[parsed[key]]`, not multiplied)
TimesOne(v, n) == IF n > 0 THEN <<v>> ELSE <<>>
Times(v, n) == [i \in 1..n |-> v]

\* lines 56-68 on the dict current_split
WithFile(split, parsed, lines, cols) ==
    LET keys == DOMAIN split \cup Range(cols) \cup {"text"}
        made == [c \in keys |-> IF c \in DOMAIN split THEN split[c] ELSE <<>>]
        text == CleanLines(lines)
    IN  [c \in keys |->
            IF c = "text" THEN made[c] \o text
            ELSE IF c \in Range(cols)
                 THEN made[c] \o Times(parsed[c], Len(text))
                 ELSE made[c]]

\* lines 47-68: the loop body for one file
AfterFile(dict, name, lines, splits) ==
    LET parsed == Parse(name)
        subset == parsed.subset
    IN  IF splits
        THEN LET old == IF subset \in DOMAIN dict THEN dict[subset] ELSE <<>>
             IN  [s \in DOMAIN dict \cup {subset} |->
                     IF s = subset
                     THEN WithFile(old, parsed, lines, ColNames(splits))
                     ELSE dict[s]]
        ELSE WithFile(dict, parsed, lines, ColNames(splits))

\* datasets.Dataset.from_dict accepts columns of one length only
SameLength(table) ==
    \A c, d \in DOMAIN table : Len(table[c]) = Len(table[d])

\* lines 32-45: a str becomes a list; a directory lists its files in any order
DyckStart ==
    /\ dpc = "start"
    /\ \/ /\ files.kind = "list"
          /\ files' = files
       \/ /\ files.kind = "file"
          /\ files' = [kind |-> "list", names |-> <<files.name>>]
       \/ /\ files.kind = "dir"
          /\ \E order \in [1..Cardinality(files.entries) -> files.entries] :
                /\ Range(order) = files.entries
                /\ files' = [kind |-> "list", names |-> order]
    /\ dataset_dict' = <<>>
    /\ dpc' = "loop"
    /\ UNCHANGED <<disk, use_splits, fidx>>
    /\ UNCHANGED balVars

\* lines 46-68: one iteration of `for file_path in files`
DyckFile ==
    /\ dpc = "loop"
    /\ fidx < Len(files.names)
    /\ LET name == files.names[fidx + 1]
       IN  dataset_dict' = AfterFile(dataset_dict, name, disk[name], use_splits)
    /\ fidx' = fidx + 1
    /\ UNCHANGED <<disk, files, use_splits, dpc>>
    /\ UNCHANGED balVars

\* lines 70-78: the tables are built from the dict
DyckReturn ==
    /\ dpc = "loop"
    /\ fidx >= Len(files.names)
    /\ dpc' = IF use_splits
              THEN IF \A s \in DOMAIN dataset_dict : SameLength(dataset_dict[s])
                   THEN "done" ELSE "raised"
              ELSE IF SameLength(dataset_dict) THEN "done" ELSE "raised"
    /\ UNCHANGED <<disk, files, use_splits, dataset_dict, fidx>>
    /\ UNCHANGED balVars

FileArgs ==
    {[kind |-> "list", names |-> ns] :
        ns \in UNION {[1..n -> FileNames] : n \in 0..MaxFiles}}
    \cup {[kind |-> "file", name |-> n] : n \in FileNames}
    \cup {[kind |-> "dir", entries |-> FileNames]}

DyckInit ==
    /\ Entered({}, <<>>, DefaultSymbols)
    /\ disk \in [FileNames -> Contents]
    /\ files \in FileArgs
    /\ use_splits \in BOOLEAN
    /\ dataset_dict = <<>>
    /\ fidx = 0
    /\ dpc = "start"

NextDyck == DyckStart \/ DyckFile \/ DyckReturn

DyckSpec == DyckInit /\ [][NextDyck]_vars

-----------------------------------------------------------------------------
(* Properties of is_balanced.  The notions they use are defined here from  *)
(* the language of well nested symbols, not from the scan.                 *)

ClosingSyms(syms) == DOMAIN syms
OpeningSyms(syms) == {syms[k] : k \in DOMAIN syms}
IsStructural(c, syms) == c \in ClosingSyms(syms) \cup OpeningSyms(syms)

\* no character is both an opening and a closing symbol
Disjoint(syms) == ClosingSyms(syms) \cap OpeningSyms(syms) = {}

\* What a character stands for, read from left to right: as a closing symbol
\* it closes what is open before it, as an opening symbol it opens for what
\* comes after it; a character that is no symbol stands for nothing.
RoleEvents(c, syms) ==
    (IF c \in ClosingSyms(syms) THEN <<[role |-> "close", sym |-> c]>> ELSE <<>>)
    \o (IF c \in OpeningSyms(syms) THEN <<[role |-> "open", sym |-> c]>> ELSE <<>>)

RECURSIVE Events(_, _)
Events(text, syms) ==
    IF text = <<>> THEN <<>>
    ELSE RoleEvents(Head(text), syms) \o Events(Tail(text), syms)

\* an opening symbol directly followed by a closing symbol of its pair
PairAt(s, i, syms) ==
    /\ s[i].role = "open"
    /\ s[i + 1].role = "close"
    /\ syms[s[i + 1].sym] = s[i].sym

\* cancel matched pairs, leftmost first, until none is left
RECURSIVE Reduce(_, _)
Reduce(s, syms) ==
    LET at == {i \in 1..(Len(s) - 1) : PairAt(s, i, syms)}
    IN  IF at = {} THEN s
        ELSE LET i == CHOOSE j \in at : \A k \in at : j <= k
             IN  Reduce(SubSeq(s, 1, i - 1) \o SubSeq(s, i + 2, Len(s)), syms)

\* every closing symbol closes the latest open opening symbol, none stays open
WellNested(text, syms) == Reduce(Events(text, syms), syms) = <<>>

\* the opening symbols of the text that nothing has closed, in order
Unmatched(text, syms) ==
    LET left == SelectSeq(Reduce(Events(text, syms), syms),
                          LAMBDA e : e.role = "open")
    IN  [i \in 1..Len(left) |-> left[i].sym]

Example1 == <<"(", ")", "[", "]", "{", "}">>
Example2 == <<"(", "{", "a", "b", "c", "}", ")", " ", "1", "2", "3", " ", "[", "]">>
Example3 == <<"(", "[", ")", "]">>
Example4 == <<"(">>
Example5 == Example2 \o <<" ", "(", "}">>

ExamplesAgree ==
    /\ is_balanced(Example1, DefaultSymbols) = "True"
    /\ is_balanced(Example2, DefaultSymbols) = "True"
    /\ is_balanced(Example3, DefaultSymbols) = "False"
    /\ is_balanced(Example4, DefaultSymbols) = "False"
    /\ is_balanced(Example5, DefaultSymbols) = "False"

ResultIsWellNested(t) ==
    pc[t] = "done" => (ret[t] = "True" <=> WellNested(txt[t], symbols))

\* C1 as stated: for every text and EVERY mapping the result is True exactly
\* when the text is well nested, and the five examples come out as listed.
C1_AnyMapping ==
    /\ \A t \in DOMAIN pc : ResultIsWellNested(t)
    /\ ExamplesAgree

\* C1 amended: for every text and every mapping in which no character is both
\* an opening and a closing symbol, is_balanced returns True exactly when every
\* closing symbol matches the latest unmatched opening symbol and no opening
\* symbol stays unmatched; the five examples come out as listed.
C1_DisjointMapping ==
    /\ \A t \in DOMAIN pc : Disjoint(symbols) => ResultIsWellNested(t)
    /\ ExamplesAgree

C1_Witness ==
    /\ pc["t1"] = "done"
    /\ symbols = [k \in {")", "]"} |-> IF k = ")" THEN "(" ELSE "["]
    /\ txt["t1"] = <<"(", "[", ")", "]">>
    /\ ret["t1"] = "False"
    /\ pos["t1"] = 3

\* the part of the text the loop has gone through
Prefix(t) == SubSeq(char_list[t], 1, pos[t])

StackIsUnmatched(t) ==
    pc[t] = "for" => stack[t] = Unmatched(Prefix(t), symbols)

\* C9 as stated: for EVERY mapping, after each processed character the stack is
\* the sequence of opening symbols read so far that are not yet matched.
C9_AnyMapping == \A t \in DOMAIN pc : StackIsUnmatched(t)

\* C9 amended: for every mapping in which no character is both an opening and a
\* closing symbol, after each processed character (until the function returns)
\* the stack holds exactly the opening symbols read so far whose closing symbol
\* has not been read, in order of occurrence, the latest at the popped end.
C9_DisjointMapping ==
    \A t \in DOMAIN pc : Disjoint(symbols) => StackIsUnmatched(t)

C9_Witness ==
    /\ pc["t1"] = "for"
    /\ Disjoint(symbols)
    /\ Prefix("t1") = <<"(", "[", "]", "[">>
    /\ stack["t1"] = <<"(", "[">>

\* thread t returns False at the character it is at, reading no further
ReturnsFalseHere(t) ==
    /\ pc'[t] = "done"
    /\ ret'[t] = "False"
    /\ pos'[t] = pos[t]

\* at the closing check the stack holds nothing from before this character:
\* it was empty when the scan reached the character
ReachedOnEmpty(t) ==
    /\ pc[t] = "close"
    /\ ch(t) \in ClosingSyms(symbols)
    /\ stack[t] = IF ch(t) \in OpeningSyms(symbols) THEN <<ch(t)>> ELSE <<>>

\* C2 as stated: for EVERY mapping, a closing symbol reached while the stack
\* is empty makes is_balanced return False at once.
C2_AnyClosingSymbol ==
    [][\A t \in DOMAIN pc : ReachedOnEmpty(t) => ReturnsFalseHere(t)]_vars

\* C2 amended: when the scan reaches, with the stack empty, a closing symbol
\* that is not also an opening symbol of the mapping, is_balanced returns False
\* at once, without looking at the rest of the text.
C2_PureClosingSymbol ==
    [][\A t \in DOMAIN pc :
          (ReachedOnEmpty(t) /\ ch(t) \notin OpeningSyms(symbols))
              => ReturnsFalseHere(t)]_vars

C2_Witness ==
    /\ pc["t1"] = "done"
    /\ ret["t1"] = "False"
    /\ symbols = [k \in {")"} |-> "("]
    /\ txt["t1"] = <<"[", ")", "(", ")">>
    /\ pos["t1"] = 2
    /\ stack["t1"] = <<>>

\* f is s reversed, each opening symbol replaced by a closing symbol of its pair
IsReverseFlip(s, f, syms) ==
    /\ Len(f) = Len(s)
    /\ \A i \in 1..Len(s) :
          /\ f[i] \in ClosingSyms(syms)
          /\ syms[f[i]] = s[Len(s) + 1 - i]

\* text is s + reverse_and_flip(s) for a string s of opening symbols
IsOpenThenFlip(text, syms) ==
    \E n \in 0..Len(text) :
        /\ \A i \in 1..n : text[i] \in OpeningSyms(syms)
        /\ IsReverseFlip(SubSeq(text, 1, n), SubSeq(text, n + 1, Len(text)), syms)

\* C3 as stated: for EVERY mapping, s + reverse_and_flip(s) gives True.
C3_AnyMapping ==
    \A t \in DOMAIN pc :
        (pc[t] = "done" /\ IsOpenThenFlip(txt[t], symbols)) => ret[t] = "True"

\* C3 amended: for every mapping in which no character is both an opening and a
\* closing symbol and every string s of opening symbols,
\* is_balanced(s + reverse_and_flip(s)) returns True.
C3_DisjointMapping ==
    \A t \in DOMAIN pc :
        (pc[t] = "done" /\ Disjoint(symbols) /\ IsOpenThenFlip(txt[t], symbols))
            => ret[t] = "True"

C3_Witness ==
    /\ pc["t1"] = "done"
    /\ symbols = [k \in {")", "]"} |-> IF k = ")" THEN "(" ELSE "["]
    /\ txt["t1"] = <<"[", "(", ")", "]">>
    /\ ret["t1"] = "True"

Inserted(text, i, c) == SubSeq(text, 1, i) \o <<c>> \o SubSeq(text, i + 1, Len(text))
Deleted(text, i) == SubSeq(text, 1, i - 1) \o SubSeq(text, i + 1, Len(text))
\* the text without the characters that are no symbols
Structural(text, syms) == SelectSeq(text, LAMBDA c : IsStructural(c, syms))

\* C4: characters that are neither a key nor a value of the mapping are
\* ignored: a text of such characters only (the empty text too) gives True,
\* and inserting or deleting such characters anywhere leaves the result as it is.
C4_NonSymbolsIgnored ==
    \A t \in DOMAIN pc :
        pc[t] = "done" =>
            /\ (Structural(txt[t], symbols) = <<>> => ret[t] = "True")
            /\ is_balanced(Structural(txt[t], symbols), symbols) = ret[t]
            /\ \A i \in 0..Len(txt[t]), c \in Chars :
                  ~IsStructural(c, symbols) =>
                      is_balanced(Inserted(txt[t], i, c), symbols) = ret[t]
            /\ \A i \in 1..Len(txt[t]) :
                  ~IsStructural(txt[t][i], symbols) =>
                      is_balanced(Deleted(txt[t], i), symbols) = ret[t]

C4_Witness ==
    /\ pc["t1"] = "done"
    /\ symbols = [k \in {")"} |-> "("]
    /\ txt["t1"] = <<"(", "[", ")", "]">>
    /\ ret["t1"] = "True"

\* what is left to do for thread t; every step of the call makes it smaller
Rank(p, n, at) ==
    CASE at = "open" -> 3 * (n - p) + 3
      [] at = "close" -> 3 * (n - p) + 2
      [] at = "for" -> 3 * (n - p) + 1
      [] OTHER -> 0

EndsWellOrGoesOn(t) ==
    /\ pc[t] # "raised"
    /\ exc[t] = "none"
    /\ pos[t] <= Len(txt[t])
    /\ pc[t] = "done" => ret[t] \in {"True", "False"}
    /\ pc[t] # "done" => ENABLED (Fetch(t) \/ Opening(t) \/ Closing(t) \/ Return(t))

\* C5: for every text and mapping a call ends after at most len(text)
\* characters with True or False, never with an exception: no state is an
\* error, a call that is not over can take a step, and each step of a call
\* brings it closer to its end.
C5_TerminatesWithBoolean ==
    /\ [](\A t \in DOMAIN pc : EndsWellOrGoesOn(t))
    /\ [][\A t \in DOMAIN pc :
             pc'[t] # pc[t] \/ pos'[t] # pos[t] =>
                 Rank(pos'[t], Len(txt[t]), pc'[t]) < Rank(pos[t], Len(txt[t]), pc[t])]_vars

C5_Witness ==
    /\ pc["t1"] = "done"
    /\ pos["t1"] = MaxLen
    /\ stack["t1"] # <<>>
    /\ ret["t1"] = "False"
    /\ exc["t1"] = "none"

IsDual(c, syms) == c \in ClosingSyms(syms) /\ c \in OpeningSyms(syms)

\* C10: a character that is both an opening and a closing symbol gets both
\* checks, opening first: it is pushed, and then the top of the stack (the
\* character itself) is popped and compared with the opening symbol the
\* mapping gives for it; on a mismatch False is returned.
C10_DualOpenThenClose ==
    [][\A t \in DOMAIN pc :
          /\ (pc[t] = "open" /\ IsDual(ch(t), symbols)) =>
                /\ stack'[t] = Append(stack[t], ch(t))
                /\ pc'[t] = "close"
          /\ (pc[t] = "close" /\ IsDual(ch(t), symbols)) =>
                /\ stack[t] # <<>>
                /\ stack'[t] = SubSeq(stack[t], 1, Len(stack[t]) - 1)
                /\ IF stack[t][Len(stack[t])] = symbols[ch(t)]
                   THEN pc'[t] = "for" /\ ret'[t] = "none"
                   ELSE ReturnsFalseHere(t)]_vars

C10_Witness ==
    /\ pc["t1"] = "done"
    /\ ret["t1"] = "False"
    /\ symbols = [k \in {")", "("} |-> IF k = ")" THEN "(" ELSE "["]
    /\ txt["t1"] = <<"[", "(", ")", "]">>
    /\ pos["t1"] = 2
    /\ stack["t1"] = <<"[">>

\* C6: calls that run at once on the shared default mapping, their steps
\* interleaved in any order, each work on their own stack (it holds the
\* unmatched opening symbols of the call's own text and of nothing else) and
\* each return what the call returns when it runs alone.
C6_Reentrant ==
    \A t \in DOMAIN pc :
        /\ pc[t] # "raised"
        /\ StackIsUnmatched(t)
        /\ pc[t] = "done" =>
              /\ ret[t] = is_balanced(txt[t], DefaultSymbols)
              /\ ret[t] = "True" <=> WellNested(txt[t], DefaultSymbols)

C6_Witness ==
    /\ DOMAIN pc = {"t1", "t2"}
    /\ txt["t1"] = <<"(", ")">>
    /\ txt["t2"] = <<"(", "(">>
    /\ pc["t1"] = "close" /\ pos["t1"] = 2 /\ stack["t1"] = <<"(">>
    /\ pc["t2"] = "close" /\ pos["t2"] = 2 /\ stack["t2"] = <<"(", "(">>

\* C7: is_balanced has no side effects: no step of a call changes the mapping
\* object or the text it was given, and whatever calls came before, two calls
\* on the same text with the same mapping return the same result.
C7_NoSideEffects ==
    /\ [][/\ symbols' = symbols
          /\ \A t \in DOMAIN pc : pc[t] # "done" => txt'[t] = txt[t]]_vars
    /\ [](\A i, j \in DOMAIN calls :
            calls[i].txt = calls[j].txt => calls[i].ret = calls[j].ret)

C7_Witness ==
    /\ Len(calls) = 2
    /\ calls[1] = [txt |-> <<"(", ")">>, ret |-> "True"]
    /\ calls[2] = [txt |-> <<"(", ")">>, ret |-> "True"]
    /\ symbols = DefaultSymbols

-----------------------------------------------------------------------------
(* Properties of dyck2dataset *)

\* the lines of the listed files in reading order, each with its file
RECURSIVE LinesRead(_, _)
LinesRead(names, contents) ==
    IF names = <<>> THEN <<>>
    ELSE [i \in 1..Len(contents[Head(names)]) |->
             [name |-> Head(names), line |-> contents[Head(names)][i]]]
         \o LinesRead(Tail(names), contents)

\* an empty line holds its line break and nothing else
IsEmptyLine(line) == \A i \in 1..Len(line) : line[i] = "\n"

\* the field of the file name "k<k>_m<m>_tr<tr>.<subset>"
NameField(name, col) ==
    CASE col = "k" -> name[1]
      [] col = "m" -> name[2]
      [] col = "tr" -> name[3]
      [] col = "subset" -> name[4]

\* table has the columns cols and "text" and one row for each source, the
\* row of a source holding the fields of the source's file
RowPerSource(table, sources, cols) ==
    /\ DOMAIN table = cols \cup {"text"}
    /\ \A c \in DOMAIN table : Len(table[c]) = Len(sources)
    /\ \A c \in cols : \A i \in 1..Len(sources) :
          table[c][i] = NameField(sources[i].name, c)
    /\ \A i \in 1..Len(sources) :
          IsEmptyLine(sources[i].line) => table["text"][i] = <<>>

\* the tables dyck2dataset returns are built from the rows of `sources`
TablesHold(sources) ==
    IF files.names = <<>> THEN dataset_dict = <<>>
    ELSE IF use_splits
    THEN /\ DOMAIN dataset_dict = {files.names[i][4] : i \in 1..Len(files.names)}
         /\ \A sp \in DOMAIN dataset_dict :
               RowPerSource(dataset_dict[sp],
                            SelectSeq(sources, LAMBDA r : r.name[4] = sp),
                            {"k", "m", "tr"})
    ELSE RowPerSource(dataset_dict, sources, {"k", "m", "tr", "subset"})

\* C8 as stated: one row for each NON-EMPTY line of input (an empty line gives
\* no row), each row with the k, m, tr (and subset) of its file, all columns of
\* a table of one length.
C8_RowPerNonEmptyLine ==
    /\ dpc # "raised"
    /\ dpc = "done" =>
          TablesHold(SelectSeq(LinesRead(files.names, disk),
                               LAMBDA r : ~IsEmptyLine(r.line)))

\* C8 amended: for every list of input files dyck2dataset emits exactly one
\* row for each line of input, empty lines included (an empty line gives a row
\* with an empty text), each row with the k, m, tr (and, in the flat table,
\* subset) of its file, so that all columns of a table have one length.
C8_RowPerLine ==
    /\ dpc # "raised"
    /\ dpc = "done" => TablesHold(LinesRead(files.names, disk))

C8_Witness ==
    /\ dpc = "done"
    /\ ~use_splits
    /\ Len(files.names) = 2
    /\ files.names[1] # files.names[2]
    /\ \A n \in FileNames : Len(disk[n]) = 2 /\ disk[n][1] = <<"\n">>
    /\ Len(dataset_dict["text"]) = 4
    /\ dataset_dict["k"] = <<files.names[1][1], files.names[1][1],
                             files.names[2][1], files.names[2][1]>>

====
